---- MODULE Spec2Model ----
(***************************************************************************)
(* Model of the model-inference-service: the ONNX session wrapper          *)
(* (model/onnx.go), the mutex-guarded InferenceService, the chronic event  *)
(* processor and the server start/shutdown code of main.                   *)
(*                                                                         *)
(* Seven specifications share the variables:                               *)
(*   Spec          request tasks calling the InferenceService concurrently *)
(*   SpecPipeline  startChronicEventProcessor with its producers, the      *)
(*                 producer-side close and the cancellation signal         *)
(*   SpecMain      main from startChronicEventProcessor on: startServers,  *)
(*                 the listener, its stopper, request handlers, the        *)
(*                 signal goroutine and process exit                       *)
(*   SpecSelect    PredictClass and GetTopKPredictions applied to every    *)
(*                 probability vector Predict may return                   *)
(*   SpecOwner     one task using the service call after call and keeping  *)
(*                 a Predict result                                        *)
(*   SpecClose     that task, which also calls ONNXModel.Close             *)
(*   SpecStartup   main from loadClassDictionary on                        *)
(***************************************************************************)
EXTENDS Integers, Sequences, FiniteSets, TLC

\* ------------------------------------------------------------- bounds
\* Number of concurrent request tasks.
NumTasks == 2
\* Flat input size of the session (1*180*180*3 in the deployment), scaled down.
InputSize == 1
\* Largest value of an input element.
MaxPixel == 1
\* Capacity of the event channel (100 in main), scaled down.
ChanCap == 2
\* Number of audit events the producers may enqueue.
MaxEvents == 3
\* Number of requests the listener may accept.
MaxRequests == 2

\* ------------------------------------------------- program constants
\* outputShape[1]: the number of classes.
NumClasses == 8
\* The clamp of k in ONNXModel.GetTopKPredictions.
TopKMax == 8

Tasks == 1..NumTasks
Pixels == 0..MaxPixel
NoTask == 0

\* All sequences over S of length n.
SeqsOfLen(S, n) == [1..n -> S]

\* The tensors a caller may pass: every tensor of the expected size, and one
\* that is too short and one that is too long.
Inputs ==
    SeqsOfLen(Pixels, InputSize)
        \cup {[i \in 1..(InputSize - 1) |-> 0], [i \in 1..(InputSize + 1) |-> 0]}

\* The k arguments a caller may pass to GetTopKPredictions.
KArgs == {0, TopKMax + 1}

Ops == {"Predict", "PredictClass", "TopK", "ClassName", "ValidateInput"}

\* The class dictionaries NewInferenceService may be given: nil, one name per
\* class, or one name short.
\* The name of class i is modelled by i itself.
NilDict == [nil |-> TRUE, names |-> <<>>]
DictOfLen(n) == [nil |-> FALSE, names |-> [i \in 1..n |-> i - 1]]
ClassDicts == {NilDict, DictOfLen(NumClasses), DictOfLen(NumClasses - 1)}

\* The class indices a caller may pass to GetClassName.
ClassIdxArgs == {-1, 0, NumClasses - 1, NumClasses}

VARIABLES
    \* ---- InferenceService / ONNXModel
    mu,            \* s.mu: the task holding the mutex, NoTask when free
    classDict,     \* s.classDict
    inputTensor,   \* m.inputTensor's data, reused across calls
    outputTensor,  \* m.outputTensor's data, reused across calls
    tpc,           \* per task: position in the service call
    targ,          \* per task: op, input, k, class index of the running call
    tloc,          \* per task: locals of GetTopKPredictions (indices, probs, i, results)
    lastRet,       \* the return a service operation just made (until the next Lock)
    runs,          \* m.session.Run() calls of the call that holds or last held the mutex
    held,          \* the slice a caller keeps from an earlier Predict
    \* ---- ONNXModel: released resources
    closeCalls,    \* ONNXModel.Close calls made so far
    destroys,      \* the Destroy calls made so far, in order, by resource
    lastClose,     \* the last Close call: the releases that failed, the error it returned
    \* ---- the selection functions applied to a probability vector
    pv,            \* the probability vector Predict returned
    fres,          \* the result of the function applied to it
    \* ---- event pipeline
    cancelled,     \* ctx.Done() is closed
    events,        \* buffer of the chronicEvents channel
    chClosed,      \* the channel has been closed
    closedBy,      \* who closed it: "none", "producer", "consumer"
    closes,        \* close(events) calls executed so far
    cpc,           \* consumer goroutine: "select", "create", "defer", "returned", "panicked"
    cev,           \* the event the consumer holds
    attempts,      \* repository.Create calls made, in order: [ev, ok]
    sent,          \* events enqueued so far
    atCancel,      \* the channel's buffer when the cancellation signal fired
    \* ---- main / startServers
    mode,          \* config.RestMode
    mpc,           \* main goroutine
    lpc,           \* listener goroutine (Serve / Listen)
    spc,           \* stopper goroutine (<-ctx.Done(); GracefulStop / Shutdown)
    hpc,           \* per request: its handler's position
    errChan,       \* buffer of errChan (capacity 1)
    proc,          \* "running", "exit0", "fatal", "panic"
    procErr        \* the error log.Fatal printed, or the panic's reason

svcVars == <<mu, classDict, inputTensor, outputTensor, tpc, targ, tloc, lastRet, runs>>
svcVarsButMu == <<classDict, inputTensor, outputTensor, tpc, targ, tloc, lastRet, runs>>
pipeVars == <<cancelled, events, chClosed, closedBy, closes, cpc, cev, attempts, sent, atCancel>>
mainVars == <<mode, mpc, lpc, spc, hpc, errChan, proc, procErr>>
closeVars == <<closeCalls, destroys, lastClose>>
funVars == <<pv, fres>>
restVars == <<held, closeVars, funVars>>
vars == <<svcVars, pipeVars, mainVars, restVars>>

\* ------------------------------------------------ ONNXModel (pure parts)

\* session.Run: the engine's output for the content of the input tensor. The
\* engine is deterministic, and distinct inputs give distinct outputs.
Engine(in) ==
    [c \in 1..NumClasses |-> (in[((c - 1) % Len(in)) + 1] + c) % (MaxPixel + 1)]

\* ONNXModel.GetExpectedInputSize: the product of inputShape.
GetExpectedInputSize == 1 * InputSize

\* The loop with >= for >: the last of the equal maxima wins.
RECURSIVE ArgMaxLastWins(_, _, _)
ArgMaxLastWins(probabilities, i, maxIdx) ==
    IF i >= Len(probabilities) THEN maxIdx
    ELSE ArgMaxLastWins(probabilities, i + 1,
                        IF probabilities[i + 1] >= probabilities[maxIdx + 1] THEN i ELSE maxIdx)

\* The loop of ONNXModel.PredictClass from index i on (indices from 0).
RECURSIVE ArgMaxFrom(_, _, _)
ArgMaxFrom(probabilities, i, maxIdx) ==
    IF i >= Len(probabilities) THEN maxIdx
    ELSE ArgMaxFrom(probabilities, i + 1,
                    IF probabilities[i + 1] > probabilities[maxIdx + 1] THEN i ELSE maxIdx)

\* ONNXModel.PredictClass on the probabilities Predict returned: <<maxIdx, maxProb>>.
PredictClassOf(probabilities) ==
    LET maxIdx == ArgMaxFrom(probabilities, 1, 0)
    IN  <<maxIdx, probabilities[maxIdx + 1]>>

\* The clamp of k at the head of ONNXModel.GetTopKPredictions.
ClampK(k) ==
    LET k1 == IF k > TopKMax THEN TopKMax ELSE k
    IN  IF k1 < 1 THEN 1 ELSE k1

\* The inner loop with >= for >: the last of the equal maxima wins.
RECURSIVE InnerMaxLastWins(_, _, _)
InnerMaxLastWins(preds, j, maxIdx) ==
    IF j >= Len(preds) THEN maxIdx
    ELSE InnerMaxLastWins(preds, j + 1,
                          IF preds[j + 1].prob >= preds[maxIdx + 1].prob THEN j ELSE maxIdx)

\* The inner loop of the selection sort: the position of the maximum from j on.
RECURSIVE InnerMax(_, _, _)
InnerMax(preds, j, maxIdx) ==
    IF j >= Len(preds) THEN maxIdx
    ELSE InnerMax(preds, j + 1,
                  IF preds[j + 1].prob > preds[maxIdx + 1].prob THEN j ELSE maxIdx)

\* The outer loop with the maximum copied into position i and the entry that
\* was there dropped, instead of the two being swapped.
RECURSIVE SelectFromNoSwap(_, _, _)
SelectFromNoSwap(preds, i, k) ==
    IF i >= k THEN preds
    ELSE LET maxIdx == InnerMax(preds, i + 1, i)
             copied == [preds EXCEPT ![i + 1] = preds[maxIdx + 1]]
         IN  SelectFromNoSwap(copied, i + 1, k)

\* The outer loop of the selection sort, from position i on.
RECURSIVE SelectFrom(_, _, _)
SelectFrom(preds, i, k) ==
    IF i >= k THEN preds
    ELSE LET maxIdx == InnerMax(preds, i + 1, i)
             swapped == [preds EXCEPT ![i + 1] = preds[maxIdx + 1],
                                      ![maxIdx + 1] = preds[i + 1]]
         IN  SelectFrom(swapped, i + 1, k)

\* ONNXModel.GetTopKPredictions on the probabilities Predict returned:
\* the top indices and their probabilities.
TopKOf(probabilities, k) ==
    LET kk == ClampK(k)
        preds == [i \in 1..Len(probabilities) |-> [idx |-> i - 1, prob |-> probabilities[i]]]
        sorted == SelectFrom(preds, 0, kk)
    IN  [indices |-> [i \in 1..kk |-> sorted[i].idx],
         probs |-> [i \in 1..kk |-> sorted[i].prob]]

\* The body of InferenceService.GetClassName: [err, name].
GetClassNameOf(dict, classIndex) ==
    IF dict.nil THEN [err |-> "dictnil", name |-> -1]
    ELSE IF classIndex >= 0 /\ classIndex < Len(dict.names)
         THEN [err |-> "none", name |-> dict.names[classIndex + 1]]
         ELSE [err |-> "unknownidx", name |-> -1]

\* ---------------------------------------------- InferenceService (steps)

NoArg == [op |-> "none", in |-> <<>>, k |-> 0, idx |-> 0]
NoLoc == [indices |-> <<>>, probs |-> <<>>, i |-> 0, results |-> <<>>]
NoRet == [task |-> NoTask, arg |-> NoArg, err |-> "none", val |-> <<>>]

\* The arguments of a call of op.
ArgsOf(op) ==
    CASE op \in {"Predict", "PredictClass", "ValidateInput"} ->
            {[op |-> op, in |-> in, k |-> 0, idx |-> 0] : in \in Inputs}
      [] op = "TopK" ->
            {[op |-> op, in |-> in, k |-> k, idx |-> 0] : in \in Inputs, k \in KArgs}
      [] op = "ClassName" ->
            {[op |-> op, in |-> <<>>, k |-> 0, idx |-> idx] : idx \in ClassIdxArgs}

\* Where a call continues once it holds the mutex.
Entry(op) ==
    CASE op \in {"Predict", "PredictClass", "TopK"} -> "validate"
      [] op = "ClassName" -> "nameBody"
      [] op = "ValidateInput" -> "vinBody"

InTopKLoop(t) == targ[t].op = "TopK"

\* The call of t returns err and val; its deferred s.mu.Unlock() runs.
Return(t, err, val) ==
    /\ lastRet' = [task |-> t, arg |-> targ[t], err |-> err, val |-> val]
    /\ mu' = NoTask
    /\ tpc' = [tpc EXCEPT ![t] = "idle"]
    /\ targ' = [targ EXCEPT ![t] = NoArg]
    /\ tloc' = [tloc EXCEPT ![t] = NoLoc]

\* A request task calls an operation of the service and reaches its s.mu.Lock().
Call(t) ==
    /\ tpc[t] = "idle"
    /\ tpc' = [tpc EXCEPT ![t] = "lock"]
    /\ UNCHANGED <<mu, classDict, inputTensor, outputTensor, targ, tloc, lastRet, runs>>

\* s.mu.Lock() without the mutex: the service as it was before it had one.
LockNoMutex(t) ==
    /\ tpc[t] \in {"lock", "nameLock"}
    /\ mu' = t
    /\ IF tpc[t] = "lock"
       THEN \E op \in Ops : \E a \in ArgsOf(op) :
                /\ targ' = [targ EXCEPT ![t] = a]
                /\ tpc' = [tpc EXCEPT ![t] = Entry(op)]
       ELSE /\ tpc' = [tpc EXCEPT ![t] = "nameBody"]
            /\ UNCHANGED targ
    /\ lastRet' = NoRet
    /\ runs' = IF tpc[t] = "lock" THEN 0 ELSE runs
    /\ UNCHANGED <<classDict, inputTensor, outputTensor, tloc>>

\* s.mu.Lock(): blocks while the mutex is held, by whichever task (sync.Mutex
\* is not reentrant). The operation and its arguments are the caller's; they
\* show in the state from here on. "nameLock" is the Lock of the GetClassName
\* that GetTopKPredictions calls.
Lock(t) ==
    /\ tpc[t] \in {"lock", "nameLock"}
    /\ mu = NoTask
    /\ mu' = t
    /\ IF tpc[t] = "lock"
       THEN \E op \in Ops : \E a \in ArgsOf(op) :
                /\ targ' = [targ EXCEPT ![t] = a]
                /\ tpc' = [tpc EXCEPT ![t] = Entry(op)]
       ELSE /\ tpc' = [tpc EXCEPT ![t] = "nameBody"]
            /\ UNCHANGED targ
    /\ lastRet' = NoRet
    /\ runs' = IF tpc[t] = "lock" THEN 0 ELSE runs
    /\ UNCHANGED <<classDict, inputTensor, outputTensor, tloc>>

\* ONNXModel.Predict's first part with the mutex given up after the copy, as
\* if the lock covered the copy alone and not the session call.
PredictCopyInUnlocks(t) ==
    /\ tpc[t] = "validate"
    /\ IF Len(targ[t].in) # Len(inputTensor)
       THEN Return(t, "size", <<>>) /\ UNCHANGED <<classDict, inputTensor, outputTensor, runs>>
       ELSE /\ inputTensor' = targ[t].in
            /\ tpc' = [tpc EXCEPT ![t] = "run"]
            /\ mu' = NoTask
            /\ UNCHANGED <<classDict, outputTensor, targ, tloc, lastRet, runs>>

\* ONNXModel.Predict, first part: the size check and copy(inputData, input).
PredictCopyIn(t) ==
    /\ tpc[t] = "validate"
    /\ IF Len(targ[t].in) # Len(inputTensor)
       THEN Return(t, "size", <<>>) /\ UNCHANGED <<classDict, inputTensor, outputTensor, runs>>
       ELSE /\ inputTensor' = targ[t].in
            /\ tpc' = [tpc EXCEPT ![t] = "run"]
            /\ UNCHANGED <<mu, classDict, outputTensor, targ, tloc, lastRet, runs>>

\* m.session.Run() called a second time when it fails, before the error is
\* returned.
RunSessionRetries(t) ==
    /\ tpc[t] = "run"
    /\ \/ /\ outputTensor' = Engine(inputTensor)
          /\ tpc' = [tpc EXCEPT ![t] = "copyOut"]
          /\ runs' = runs + 1
          /\ UNCHANGED <<mu, classDict, inputTensor, targ, tloc, lastRet>>
       \/ /\ Return(t, "engine", <<>>)
          /\ runs' = runs + 2
          /\ UNCHANGED <<classDict, inputTensor, outputTensor>>

\* ONNXModel.Predict, second part: m.session.Run(), which fills the output
\* tensor from the input tensor or reports an error.
RunSession(t) ==
    /\ tpc[t] = "run"
    /\ \/ /\ outputTensor' = Engine(inputTensor)
          /\ tpc' = [tpc EXCEPT ![t] = "copyOut"]
          /\ UNCHANGED <<mu, classDict, inputTensor, targ, tloc, lastRet>>
       \/ /\ Return(t, "engine", <<>>)
          /\ UNCHANGED <<classDict, inputTensor, outputTensor>>
    /\ runs' = runs + 1

\* ONNXModel.Predict, last part: the copy of the output tensor into a fresh
\* slice; then what Predict's caller does with it up to its next s.mu.Lock()
\* or its return.
CopyOut(t) ==
    /\ tpc[t] = "copyOut"
    /\ LET result == outputTensor IN
       CASE targ[t].op = "Predict" ->
                Return(t, "none", result)
         [] targ[t].op = "PredictClass" ->
                Return(t, "none", PredictClassOf(result))
         [] targ[t].op = "TopK" ->
                LET top == TopKOf(result, targ[t].k) IN
                IF Len(top.indices) = 0
                THEN Return(t, "none", <<>>)
                ELSE /\ tloc' = [tloc EXCEPT ![t] =
                            [indices |-> top.indices, probs |-> top.probs,
                             i |-> 1, results |-> <<>>]]
                     /\ tpc' = [tpc EXCEPT ![t] = "nameLock"]
                     /\ UNCHANGED <<mu, targ, lastRet>>
    /\ UNCHANGED <<classDict, inputTensor, outputTensor, runs>>

\* InferenceService.GetClassName under its mutex, and its deferred Unlock;
\* called on its own or from the loop of GetTopKPredictions, which then goes
\* on to its next index or returns.
NameBody(t) ==
    /\ tpc[t] = "nameBody"
    /\ IF InTopKLoop(t)
       THEN LET l == tloc[t]
                r == GetClassNameOf(classDict, l.indices[l.i])
                res == Append(l.results,
                              [ClassIndex |-> l.indices[l.i], ClassName |-> r.name,
                               Confidence |-> l.probs[l.i]])
            IN  IF r.err # "none" THEN Return(t, r.err, <<>>)
                ELSE IF l.i = Len(l.indices) THEN Return(t, "none", res)
                ELSE /\ tloc' = [tloc EXCEPT ![t] = [l EXCEPT !.i = l.i + 1, !.results = res]]
                     /\ tpc' = [tpc EXCEPT ![t] = "nameLock"]
                     /\ mu' = NoTask
                     /\ UNCHANGED <<targ, lastRet>>
       ELSE LET r == GetClassNameOf(classDict, targ[t].idx)
            IN  Return(t, r.err, r.name)
    /\ UNCHANGED <<classDict, inputTensor, outputTensor, runs>>

\* ValidateInput with < for !=: only an input that is too short is refused.
ValidateBodyShortOnly(t) ==
    /\ tpc[t] = "vinBody"
    /\ IF Len(targ[t].in) < GetExpectedInputSize
       THEN Return(t, "invalidsize", <<>>)
       ELSE Return(t, "none", <<>>)
    /\ UNCHANGED <<classDict, inputTensor, outputTensor, runs>>

\* InferenceService.ValidateInput under its mutex.
ValidateBody(t) ==
    /\ tpc[t] = "vinBody"
    /\ IF Len(targ[t].in) # GetExpectedInputSize
       THEN Return(t, "invalidsize", <<>>)
       ELSE Return(t, "none", <<>>)
    /\ UNCHANGED <<classDict, inputTensor, outputTensor, runs>>

\* NewInferenceService over a fresh ONNXModel: the mutex free, the input tensor
\* made of zeros, the output tensor empty (zeros), no call running.
InitSvc ==
    /\ mu = NoTask
    /\ classDict \in ClassDicts
    /\ inputTensor = [i \in 1..InputSize |-> 0]
    /\ outputTensor = [c \in 1..NumClasses |-> 0]
    /\ tpc = [t \in Tasks |-> "idle"]
    /\ targ = [t \in Tasks |-> NoArg]
    /\ tloc = [t \in Tasks |-> NoLoc]
    /\ lastRet = NoRet
    /\ runs = 0

\* ------------------------------------------------------ ONNXModel.Close

\* The resources Close releases, in the order of its statements.
Resources == <<"inputTensor", "outputTensor", "session", "environment">>

ResourceSet == {Resources[i] : i \in 1..Len(Resources)}

\* No Close call made yet.
NoClose == [failed |-> {}, err |-> "none"]

\* What Close returns when the releases in failed reported an error: the
\* results of the three Destroy calls are not looked at, the result of
\* ort.DestroyEnvironment() is returned.
CloseErr(failed) ==
    IF "environment" \in failed THEN "destroy environment failed" ELSE "none"

\* ONNXModel.Close: the four fields were set by NewONNXModel and nothing sets
\* them to nil, so every nil check passes and every Destroy is called, on
\* each call of Close. Any of the releases may report an error.
Close ==
    /\ closeCalls' = closeCalls + 1
    /\ destroys' = destroys \o Resources
    /\ \E failed \in SUBSET ResourceSet :
           lastClose' = [failed |-> failed, err |-> CloseErr(failed)]

NoHeld == [set |-> FALSE, ref |-> "none", val |-> <<>>]
NoRes == [fn |-> "none", k |-> 0, val |-> <<>>]

\* ------------------------------------------------------ event pipeline

NoEvent == 0
Running == proc = "running"

\* A goroutine panics: the Go runtime ends the process.
Panic(reason) ==
    /\ proc' = "panic"
    /\ procErr' = reason

\* close(events): a second close of a channel panics.
CloseChan(who) ==
    /\ closes' = closes + 1
    /\ IF chClosed
       THEN Panic("close of closed channel") /\ UNCHANGED <<chClosed, closedBy>>
       ELSE chClosed' = TRUE /\ closedBy' = who /\ UNCHANGED <<proc, procErr>>

\* events <- ev: panics on a closed channel, blocks while the buffer is full.
SendChan(ev) ==
    IF chClosed
    THEN Panic("send on closed channel") /\ UNCHANGED events
    ELSE /\ Len(events) < ChanCap
         /\ events' = Append(events, ev)
         /\ UNCHANGED <<proc, procErr>>

\* The consumer's select, case <-ctx.Done(): log and return.
ConsumerDone ==
    /\ Running
    /\ cpc = "select"
    /\ cancelled
    /\ cpc' = "defer"
    /\ UNCHANGED <<cancelled, events, chClosed, closedBy, closes, cev, attempts, sent,
                   atCancel, proc, procErr>>

\* The receive with its event thrown away: the consumer stays at its select
\* and repository.Create is not called for it.
ConsumerRecvDiscards ==
    /\ Running
    /\ cpc = "select"
    /\ events # <<>>
    /\ events' = Tail(events)
    /\ UNCHANGED <<cancelled, chClosed, closedBy, closes, cpc, cev, attempts, sent, atCancel,
                   proc, procErr>>

\* The consumer's select, case ev, ok := <-events with ok: a buffered event
\* is received, whether or not the channel is closed.
ConsumerRecv ==
    /\ Running
    /\ cpc = "select"
    /\ events # <<>>
    /\ cev' = Head(events)
    /\ events' = Tail(events)
    /\ cpc' = "create"
    /\ UNCHANGED <<cancelled, chClosed, closedBy, closes, attempts, sent, atCancel,
                   proc, procErr>>

\* The consumer's select, case ev, ok := <-events with !ok: the channel is
\* closed and drained; return.
ConsumerClosed ==
    /\ Running
    /\ cpc = "select"
    /\ events = <<>>
    /\ chClosed
    /\ cpc' = "defer"
    /\ UNCHANGED <<cancelled, events, chClosed, closedBy, closes, cev, attempts, sent,
                   atCancel, proc, procErr>>

\* repository.Create in a consumer without its for loop: it returns after
\* the first event.
ConsumerCreateOnce ==
    /\ Running
    /\ cpc = "create"
    /\ \E ok \in BOOLEAN :
          attempts' = Append(attempts, [ev |-> cev, ok |-> ok])
    /\ cev' = NoEvent
    /\ cpc' = "defer"
    /\ UNCHANGED <<cancelled, events, chClosed, closedBy, closes, sent, atCancel,
                   proc, procErr>>

\* repository.Create failing ends the consumer's loop.
ConsumerCreateStopsOnError ==
    /\ Running
    /\ cpc = "create"
    /\ \E ok \in BOOLEAN :
          /\ attempts' = Append(attempts, [ev |-> cev, ok |-> ok])
          /\ cpc' = IF ok THEN "select" ELSE "defer"
    /\ cev' = NoEvent
    /\ UNCHANGED <<cancelled, events, chClosed, closedBy, closes, sent, atCancel,
                   proc, procErr>>

\* repository.Create(ctx, ...) for the received event: it succeeds or fails;
\* a failure is logged and the loop goes on.
ConsumerCreate ==
    /\ Running
    /\ cpc = "create"
    /\ \E ok \in BOOLEAN :
          attempts' = Append(attempts, [ev |-> cev, ok |-> ok])
    /\ cev' = NoEvent
    /\ cpc' = "select"
    /\ UNCHANGED <<cancelled, events, chClosed, closedBy, closes, sent, atCancel,
                   proc, procErr>>

\* The consumer's deferred close(events), run as it returns.
ConsumerClose ==
    /\ Running
    /\ cpc = "defer"
    /\ CloseChan("consumer")
    /\ cpc' = IF chClosed THEN "panicked" ELSE "returned"
    /\ UNCHANGED <<cancelled, events, cev, attempts, sent, atCancel>>

\* A producer enqueues the next audit event. Producers stop once their side
\* has closed the channel.
Enqueue ==
    /\ Running
    /\ sent < MaxEvents
    /\ closedBy # "producer"
    /\ SendChan(sent + 1)
    /\ sent' = IF chClosed THEN sent ELSE sent + 1
    /\ UNCHANGED <<cancelled, chClosed, closedBy, closes, cpc, cev, attempts, atCancel>>

\* The producer side closes the channel: no producer will enqueue again.
ProducerClose ==
    /\ Running
    /\ closedBy # "producer"
    /\ CloseChan("producer")
    /\ UNCHANGED <<cancelled, events, cpc, cev, attempts, sent, atCancel>>

\* cancel(): ctx.Done() is closed from now on.
Cancel ==
    /\ Running
    /\ ~cancelled
    /\ cancelled' = TRUE
    /\ atCancel' = events
    /\ UNCHANGED <<events, chClosed, closedBy, closes, cpc, cev, attempts, sent,
                   proc, procErr>>

\* make(chan event.Event, 100) and startChronicEventProcessor: the channel
\* open and empty, the consumer at its select, the context not cancelled.
InitPipe ==
    /\ cancelled = FALSE
    /\ events = <<>>
    /\ chClosed = FALSE
    /\ closedBy = "none"
    /\ closes = 0
    /\ cpc = "select"
    /\ cev = NoEvent
    /\ attempts = <<>>
    /\ sent = 0
    /\ atCancel = <<>>

\* ------------------------------------------------- main / startServers

Requests == 1..MaxRequests

\* No handler is between its accept and its return.
NoneInFlight == \A r \in Requests : hpc[r] \in {"none", "done"}

\* The signal goroutine of main: a SIGINT or SIGTERM arrives and it calls cancel().
Signal ==
    /\ Cancel
    /\ UNCHANGED <<mode, mpc, lpc, spc, hpc, errChan>>

\* startServers up to its select. gRPC mode: net.Listen fails and the error is
\* returned at once, or the Serve goroutine and the GracefulStop goroutine
\* start. REST mode: the Listen goroutine and the Shutdown goroutine start.
StartServers ==
    /\ Running
    /\ mpc = "start"
    /\ \/ /\ ~mode
          /\ mpc' = "failed"
          /\ procErr' = "failed to listen"
          /\ UNCHANGED <<lpc, spc>>
       \/ /\ mpc' = "select"
          /\ lpc' = "serving"
          /\ spc' = "wait"
          /\ UNCHANGED procErr
    /\ UNCHANGED <<mode, hpc, errChan, proc, pipeVars>>

\* grpcServer.Serve / app.Listen returns an error before it was told to stop:
\* the listener goroutine puts it on errChan (capacity 1, one sender) and ends.
ListenerFail ==
    /\ Running
    /\ lpc = "serving"
    /\ spc = "wait"
    /\ errChan' = Append(errChan, IF mode THEN "failed to serve Fiber"
                                          ELSE "failed to serve gRPC")
    /\ lpc' = "returned"
    /\ UNCHANGED <<mode, mpc, spc, hpc, proc, procErr, pipeVars>>

\* The listener accepts a request and starts its handler.
Accept(r) ==
    /\ Running
    /\ lpc = "serving"
    /\ spc = "wait"
    /\ hpc[r] = "none"
    /\ hpc' = [hpc EXCEPT ![r] = "running"]
    /\ UNCHANGED <<mode, mpc, lpc, spc, errChan, proc, procErr, pipeVars>>

\* api.HandleFileUpload (REST mode): the handler answers; it takes the event
\* channel and sends nothing on it.
HandleFileUpload(r) ==
    /\ Running
    /\ mode
    /\ hpc[r] = "running"
    /\ hpc' = [hpc EXCEPT ![r] = "done"]
    /\ UNCHANGED <<mode, mpc, lpc, spc, errChan, proc, procErr, pipeVars>>

\* The holder of s.mu when it is the handler of request r.
HandlerTask(r) == NumTasks + r

\* The gRPC handler (AnalyzeSkin) calls the inference service for its request:
\* it takes s.mu, waiting while another handler holds it, and is inside the
\* inference from then on.
AnalyzeSkinInfer(r) ==
    /\ Running
    /\ ~mode
    /\ hpc[r] = "running"
    /\ mu = NoTask
    /\ mu' = HandlerTask(r)
    /\ hpc' = [hpc EXCEPT ![r] = "infer"]
    /\ UNCHANGED <<mode, mpc, lpc, spc, errChan, proc, procErr, pipeVars>>

\* The gRPC handler (AnalyzeSkin) up to its audit event: the inference
\* returns, s.mu is released, the request is served and the handler is about
\* to enqueue the event.
AnalyzeSkin(r) ==
    /\ Running
    /\ ~mode
    /\ hpc[r] = "infer"
    /\ mu' = NoTask
    /\ hpc' = [hpc EXCEPT ![r] = "send"]
    /\ UNCHANGED <<mode, mpc, lpc, spc, errChan, proc, procErr, pipeVars>>

\* The gRPC handler enqueues its audit event and returns.
HandlerSend(r) ==
    /\ Running
    /\ hpc[r] = "send"
    /\ SendChan(sent + 1)
    /\ sent' = IF chClosed THEN sent ELSE sent + 1
    /\ hpc' = [hpc EXCEPT ![r] = IF chClosed THEN "panicked" ELSE "done"]
    /\ UNCHANGED <<mode, mpc, lpc, spc, errChan,
                   cancelled, chClosed, closedBy, closes, cpc, cev, attempts, atCancel>>

\* The stopper goroutine: <-ctx.Done() returns and it calls GracefulStop /
\* Shutdown; the listener stops accepting.
StopperWake ==
    /\ Running
    /\ spc = "wait"
    /\ cancelled
    /\ spc' = "stopping"
    /\ UNCHANGED <<mode, mpc, lpc, hpc, errChan, proc, procErr, pipeVars>>

\* GracefulStop / Shutdown returns once no request is in flight.
StopperDone ==
    /\ Running
    /\ spc = "stopping"
    /\ NoneInFlight
    /\ spc' = "returned"
    /\ UNCHANGED <<mode, mpc, lpc, hpc, errChan, proc, procErr, pipeVars>>

\* Serve / Listen returns nil after the stop: Serve once GracefulStop is
\* through, Listen once Shutdown has closed the listener.
ListenerReturn ==
    /\ Running
    /\ lpc = "serving"
    /\ IF mode THEN spc \in {"stopping", "returned"} ELSE spc = "returned"
    /\ lpc' = "returned"
    /\ UNCHANGED <<mode, mpc, spc, hpc, errChan, proc, procErr, pipeVars>>

\* The select that ends startServers: an error from errChan is returned, or
\* nil once ctx.Done() is closed; either when both are ready.
ServersSelect ==
    /\ Running
    /\ mpc = "select"
    /\ \/ /\ errChan # <<>>
          /\ procErr' = Head(errChan)
          /\ errChan' = Tail(errChan)
          /\ mpc' = "failed"
       \/ /\ cancelled
          /\ mpc' = "returned"
          /\ UNCHANGED <<errChan, procErr>>
    /\ UNCHANGED <<mode, lpc, spc, hpc, proc, pipeVars>>

\* main after startServers returned an error: log.Fatal(err), which exits
\* with status 1 at once; no deferred call runs.
MainFatal ==
    /\ Running
    /\ mpc = "failed"
    /\ proc' = "fatal"
    /\ mpc' = "exited"
    /\ UNCHANGED <<mode, lpc, spc, hpc, errChan, procErr, pipeVars>>

\* main after startServers returned nil: <-ctx.Done(), the log line, the
\* deferred calls (onnxModel.Close, sqlDB.Close, cancel) and the return, which
\* ends the process and every goroutine with it.
MainExit ==
    /\ Running
    /\ mpc = "returned"
    /\ cancelled
    /\ Close
    /\ proc' = "exit0"
    /\ mpc' = "exited"
    /\ UNCHANGED <<mode, lpc, spc, hpc, errChan, procErr, pipeVars>>

\* main before startServers: nothing started, no error, the process running.
InitMain ==
    /\ mode \in BOOLEAN
    /\ mpc = "start"
    /\ lpc = "none"
    /\ spc = "none"
    /\ hpc = [r \in Requests |-> "none"]
    /\ errChan = <<>>
    /\ proc = "running"
    /\ procErr = "none"

\* ------------------------------------------------------ specifications

\* The service as main builds it: the dictionary loaded, no call running.
InitSvcIdle ==
    /\ InitSvc
    /\ classDict = DictOfLen(NumClasses)

\* Nothing kept by a caller, nothing released, no function applied.
InitRest ==
    /\ held = NoHeld
    /\ closeCalls = 0
    /\ destroys = <<>>
    /\ lastClose = NoClose
    /\ pv = <<>>
    /\ fres = NoRes

\* Request tasks calling one InferenceService.
Init ==
    /\ InitSvcIdle
    /\ InitPipe
    /\ InitMain /\ mode = FALSE
    /\ InitRest

Next ==
    \/ \E t \in Tasks : Call(t) /\ UNCHANGED <<pipeVars, mainVars, restVars>>
    \/ \E t \in Tasks : Lock(t) /\ UNCHANGED <<pipeVars, mainVars, restVars>>
    \/ \E t \in Tasks : PredictCopyIn(t) /\ UNCHANGED <<pipeVars, mainVars, restVars>>
    \/ \E t \in Tasks : RunSession(t) /\ UNCHANGED <<pipeVars, mainVars, restVars>>
    \/ \E t \in Tasks : CopyOut(t) /\ UNCHANGED <<pipeVars, mainVars, restVars>>
    \/ \E t \in Tasks : NameBody(t) /\ UNCHANGED <<pipeVars, mainVars, restVars>>
    \/ \E t \in Tasks : ValidateBody(t) /\ UNCHANGED <<pipeVars, mainVars, restVars>>

Spec == Init /\ [][Next]_vars

harnessVars == <<mode, mpc, lpc, spc, hpc, errChan>>

\* startChronicEventProcessor with producers, the producer-side close and
\* the cancellation signal.
InitPipeline ==
    /\ InitSvcIdle
    /\ InitPipe
    /\ InitMain /\ mode = FALSE
    /\ InitRest

NextPipeline ==
    \/ ConsumerDone /\ UNCHANGED <<svcVars, harnessVars, restVars>>
    \/ ConsumerRecv /\ UNCHANGED <<svcVars, harnessVars, restVars>>
    \/ ConsumerClosed /\ UNCHANGED <<svcVars, harnessVars, restVars>>
    \/ ConsumerCreate /\ UNCHANGED <<svcVars, harnessVars, restVars>>
    \/ ConsumerClose /\ UNCHANGED <<svcVars, harnessVars, restVars>>
    \/ Enqueue /\ UNCHANGED <<svcVars, harnessVars, restVars>>
    \/ ProducerClose /\ UNCHANGED <<svcVars, harnessVars, restVars>>
    \/ Cancel /\ UNCHANGED <<svcVars, harnessVars, restVars>>

SpecPipeline == InitPipeline /\ [][NextPipeline]_vars

\* main from startServers on, in either mode.
InitMainProgram ==
    /\ InitSvcIdle
    /\ InitPipe
    /\ InitMain
    /\ InitRest

NextMain ==
    \/ Signal /\ UNCHANGED <<svcVars, restVars>>
    \/ StartServers /\ UNCHANGED <<svcVars, restVars>>
    \/ ListenerFail /\ UNCHANGED <<svcVars, restVars>>
    \/ \E r \in Requests : Accept(r) /\ UNCHANGED <<svcVars, restVars>>
    \/ \E r \in Requests : HandleFileUpload(r) /\ UNCHANGED <<svcVars, restVars>>
    \/ \E r \in Requests : AnalyzeSkinInfer(r) /\ UNCHANGED <<svcVarsButMu, restVars>>
    \/ \E r \in Requests : AnalyzeSkin(r) /\ UNCHANGED <<svcVarsButMu, restVars>>
    \/ \E r \in Requests : HandlerSend(r) /\ UNCHANGED <<svcVars, restVars>>
    \/ StopperWake /\ UNCHANGED <<svcVars, restVars>>
    \/ StopperDone /\ UNCHANGED <<svcVars, restVars>>
    \/ ListenerReturn /\ UNCHANGED <<svcVars, restVars>>
    \/ ServersSelect /\ UNCHANGED <<svcVars, restVars>>
    \/ MainFatal /\ UNCHANGED <<svcVars, restVars>>
    \/ MainExit /\ UNCHANGED <<svcVars, held, funVars>>
    \/ ConsumerDone /\ UNCHANGED <<svcVars, harnessVars, restVars>>
    \/ ConsumerRecv /\ UNCHANGED <<svcVars, harnessVars, restVars>>
    \/ ConsumerCreate /\ UNCHANGED <<svcVars, harnessVars, restVars>>
    \/ ConsumerClose /\ UNCHANGED <<svcVars, harnessVars, restVars>>

SpecMain == InitMainProgram /\ [][NextMain]_vars

\* ---------------------------------------------------------------- claims

\* A task is inside ONNXModel.Predict between its copy into the input tensor
\* and its copy out of the output tensor.
InPredict(t) == tpc[t] \in {"run", "copyOut"}

\* C1: whatever number of request tasks call Predict, PredictClass and
\* GetTopKPredictions concurrently, at most one task is inside
\* ONNXModel.Predict (between the copy into the reused input tensor and the
\* copy out of the reused output tensor) in every reachable state.
C1_AtMostOneInPredict ==
    \A t1, t2 \in Tasks : (InPredict(t1) /\ InPredict(t2)) => t1 = t2

\* C1's case: one task is inside Predict while another has called the
\* service and waits for the mutex.
C1_Witness ==
    \E t1, t2 \in Tasks : t1 # t2 /\ InPredict(t1) /\ tpc[t2] = "lock"

\* C2: every Predict that returns without error returns the engine's output
\* for its own input, whatever the other tasks do meanwhile.
C2_PredictReturnsOwnOutput ==
    (lastRet.task # NoTask /\ lastRet.arg.op = "Predict" /\ lastRet.err = "none")
        => lastRet.val = Engine(lastRet.arg.in)

\* C2's case: a Predict of an input other than the tensor's initial content
\* has just returned without error while another task, which called the
\* service meanwhile, waits for the mutex.
C2_Witness ==
    /\ lastRet.task # NoTask
    /\ lastRet.arg.op = "Predict"
    /\ lastRet.err = "none"
    /\ lastRet.arg.in # [i \in 1..InputSize |-> 0]
    /\ \E t2 \in Tasks : t2 # lastRet.task /\ tpc[t2] = "lock"

\* The number of repository.Create calls made for event e.
AttemptCount(e) == Cardinality({i \in 1..Len(attempts) : attempts[i].ev = e})

\* The consumer has left its loop.
ConsumerStopped == cpc \in {"defer", "returned", "panicked"}

\* C3: when the producer side has closed the channel and nothing was
\* cancelled, the consumer has called repository.Create exactly once for every
\* enqueued event by the time it leaves its loop; no event is ever appended
\* twice.
C3_DrainOnProducerClose ==
    /\ \A e \in 1..MaxEvents : AttemptCount(e) <= 1
    /\ (closedBy = "producer" /\ ~cancelled /\ ConsumerStopped)
          => \A e \in 1..sent : AttemptCount(e) = 1

\* C3's case: all MaxEvents events were enqueued, the producer side closed
\* the channel, nothing was cancelled, and the consumer has left its loop.
C3_Witness ==
    /\ closedBy = "producer"
    /\ ~cancelled
    /\ sent = MaxEvents
    /\ ConsumerStopped
    /\ Len(attempts) = MaxEvents

\* C4: the event channel is closed at most once in every execution, whether
\* the consumer stops on cancellation, on the producer side's close, or both.
C4_ClosedAtMostOnce == closes <= 1

\* C5: when the consumer has terminated after the cancellation signal, every
\* event that was in the channel when the signal fired got a
\* repository.Create attempt.
C5_QueuedAtCancelAttempted ==
    (cancelled /\ cpc \in {"returned", "panicked"})
        => \A i \in 1..Len(atCancel) : AttemptCount(atCancel[i]) >= 1

\* C6: no request handler sends on the event channel once the channel is
\* closed (the consumer closes it as it returns).
C6_NoSendOnClosedChannel ==
    ~(proc = "panic" /\ procErr = "send on closed channel")

\* C7: a failing repository.Create leaves the consumer in its loop, at the
\* select for the next event; the failure stops neither the process nor
\* touches a producer or request handler.
C7_FailureKeepsConsumer ==
    [][(cpc = "create" /\ Len(attempts') = Len(attempts) + 1
            /\ ~attempts'[Len(attempts')].ok)
        => (cpc' = "select" /\ UNCHANGED <<proc, procErr, events, sent, hpc>>)]_vars

\* C7's case: the first append failed and the consumer went on to attempt a
\* later event.
C7_Witness ==
    /\ Len(attempts) >= 2
    /\ ~attempts[1].ok
    /\ attempts[2].ev # attempts[1].ev

\* C8: once the cancellation signal has fired and no request is in flight,
\* the process does not end before the listener goroutine and the consumer
\* goroutine have returned.
C8_TasksReturnAfterCancel ==
    (cancelled /\ proc = "exit0" /\ NoneInFlight)
        => (lpc = "returned" /\ cpc = "returned")

\* C9: on cancellation startServers returns nil, and main goes on to exit,
\* only after the listener, its stopper and the consumer have returned.
C9_WaitReturnsAfterAll ==
    (mpc = "returned" \/ proc = "exit0")
        => (lpc = "returned" /\ spc = "returned" /\ cpc = "returned")

\* C10: when the process ends on a listener's fatal error, the cancellation
\* signal has been fired for the other components and that error is the
\* terminal error.
C10_FatalErrorCancelsAll ==
    proc = "fatal" => (cancelled /\ procErr # "none")

\* The gRPC listener is in grpcServer.Serve.
GrpcServing == ~mode /\ lpc = "serving"

\* The REST listener is in app.Listen.
RestServing == mode /\ lpc = "serving"

\* C11: once startServers has started its goroutines and no stop was asked
\* for, the gRPC listener and the REST listener are both serving.
C11_BothListenersServe ==
    (mpc = "select" /\ lpc = "serving" /\ spc = "wait")
        => (GrpcServing /\ RestServing)

\* C12: a GetTopKPredictions call on an input of the expected size that has
\* selected its entries holds exactly ClampK(k) of them, and the mutex that
\* its class-name lookup takes next is not held by the call itself, so that
\* the call goes on to return them.
C12_TopKReturnsClampK ==
    \A t \in Tasks :
        (targ[t].op = "TopK" /\ Len(targ[t].in) = InputSize /\ tpc[t] = "nameLock")
            => (Len(tloc[t].indices) = ClampK(targ[t].k) /\ mu # t)

\* ------------------------------------- selection over a probability vector

\* Largest value of a probability, on a scale of integers.
MaxProb == 2

\* The probability vectors Predict may return: one value per class.
ProbVectors == SeqsOfLen(0..MaxProb, NumClasses)

\* The k arguments of GetTopKPredictions: below, inside and above [1, TopKMax].
TopKArgs == 0..(TopKMax + 1)

\* ONNXModel.GetTopKPredictions after its Predict returned pv.
GetTopKPredictions ==
    /\ fres = NoRes
    /\ \E k \in TopKArgs : fres' = [fn |-> "TopK", k |-> k, val |-> TopKOf(pv, k)]
    /\ UNCHANGED pv

\* ONNXModel.PredictClass after its Predict returned pv.
PredictClass ==
    /\ fres = NoRes
    /\ fres' = [fn |-> "PredictClass", k |-> 0, val |-> PredictClassOf(pv)]
    /\ UNCHANGED pv

\* Predict has returned some probability vector; no function applied yet.
InitSelect ==
    /\ InitSvcIdle
    /\ InitPipe
    /\ InitMain /\ mode = FALSE
    /\ held = NoHeld
    /\ closeCalls = 0
    /\ destroys = <<>>
    /\ lastClose = NoClose
    /\ pv \in ProbVectors
    /\ fres = NoRes

NextSelect ==
    \/ GetTopKPredictions /\ UNCHANGED <<svcVars, pipeVars, mainVars, held, closeVars>>
    \/ PredictClass /\ UNCHANGED <<svcVars, pipeVars, mainVars, held, closeVars>>

SpecSelect == InitSelect /\ [][NextSelect]_vars

ClassIndices == 0..(NumClasses - 1)

\* The class indices of a GetTopKPredictions result.
Selected(r) == {r.indices[i] : i \in 1..Len(r.indices)}

\* C13: the results of GetTopKPredictions are in non-increasing confidence
\* order, their class indices are pairwise distinct, each confidence is the
\* vector's value at its class index, and no class left out has a strictly
\* higher probability than a class returned.
C13_TopKSortedDistinctHighest ==
    fres.fn = "TopK" =>
        LET r == fres.val
            n == Len(r.indices)
        IN  /\ \A i \in 1..(n - 1) : r.probs[i] >= r.probs[i + 1]
            /\ \A i, j \in 1..n : i # j => r.indices[i] # r.indices[j]
            /\ \A i \in 1..n : /\ r.indices[i] \in ClassIndices
                               /\ r.probs[i] = pv[r.indices[i] + 1]
            /\ \A c \in ClassIndices \ Selected(r) :
                   \A i \in 1..n : pv[c + 1] <= r.probs[i]

\* C13's case: three results, not all of the same confidence, a class left
\* out that ties with the last one and a class left out below it.
C13_Witness ==
    /\ fres.fn = "TopK"
    /\ fres.k = 3
    /\ fres.val.probs[1] > fres.val.probs[2]
    /\ \E c \in ClassIndices \ Selected(fres.val) : pv[c + 1] = fres.val.probs[3]
    /\ \E c \in ClassIndices \ Selected(fres.val) : pv[c + 1] < fres.val.probs[3]

\* The (index, probability) pairs GetTopKPredictions starts from.
Predictions(probabilities) ==
    [i \in 1..Len(probabilities) |-> [idx |-> i - 1, prob |-> probabilities[i]]]

\* The array of pairs as the first i passes of the selection sort leave it.
AfterPasses(i) == SelectFrom(Predictions(pv), 0, i)

\* The first position from i on (positions from 0) that holds the maximum of
\* the entries from i on: the entry pass i meets first among the ties.
FirstMaxPos(arr, i) ==
    CHOOSE p \in (i + 1)..Len(arr) :
        /\ \A q \in (i + 1)..Len(arr) : arr[q].prob <= arr[p].prob
        /\ \A q \in (i + 1)..(p - 1) : arr[q].prob < arr[p].prob

\* C14 (as claimed): of two classes of equal probability the one of the lower
\* class index is selected first: a returned class stands behind every
\* returned class of equal probability and lower index, and no class left out
\* ties with a returned class of higher index.
C14_LowerIndexFirstAmongTies ==
    fres.fn = "TopK" =>
        LET r == fres.val
            n == Len(r.indices)
        IN  /\ \A i, j \in 1..n :
                   (i < j /\ r.probs[i] = r.probs[j]) => r.indices[i] < r.indices[j]
            /\ \A i \in 1..n : \A c \in ClassIndices \ Selected(r) :
                   pv[c + 1] = r.probs[i] => c > r.indices[i]

\* C14 (amended): every pass selects, of the entries not yet selected that hold
\* the highest probability, the one it meets first in the array as the earlier
\* passes' swaps left it; the first result is the lowest class index that
\* holds the maximum.
C14_FirstInScanOrderAmongTies ==
    fres.fn = "TopK" =>
        LET r == fres.val
            n == Len(r.indices)
        IN  /\ \A i \in 0..(n - 1) :
                   LET arr == AfterPasses(i)
                   IN  r.indices[i + 1] = arr[FirstMaxPos(arr, i)].idx
            /\ \A c \in ClassIndices : pv[c + 1] >= r.probs[1] => c >= r.indices[1]

\* C14's case: two returned classes tie and the one of the higher class index
\* stands first, an earlier swap having moved the other behind it.
C14_Witness ==
    /\ fres.fn = "TopK"
    /\ \E i, j \in 1..Len(fres.val.indices) :
           /\ i < j
           /\ fres.val.probs[i] = fres.val.probs[j]
           /\ fres.val.indices[i] > fres.val.indices[j]

\* C15: PredictClass returns the lowest class index whose probability is the
\* maximum of the vector, and that maximum as the confidence.
C15_PredictClassLowestMax ==
    fres.fn = "PredictClass" =>
        LET maxIdx == fres.val[1]
            maxProb == fres.val[2]
        IN  /\ maxIdx \in ClassIndices
            /\ maxProb = pv[maxIdx + 1]
            /\ \A c \in ClassIndices : pv[c + 1] <= maxProb
            /\ \A c \in ClassIndices : c < maxIdx => pv[c + 1] < maxProb

\* C15's case: the maximum is held by several classes, none of them class 0.
C15_Witness ==
    /\ fres.fn = "PredictClass"
    /\ fres.val[1] > 0
    /\ \E c \in ClassIndices : c > fres.val[1] /\ pv[c + 1] = fres.val[2]

\* C16: ValidateInput fails, with the invalid-size error, exactly on the inputs
\* whose length is not the expected one; Predict fails on those inputs with
\* the size-mismatch error before any session.Run call, and on no other input
\* with that error.
C16_SizeMismatchRejected ==
    LET wrongSize == Len(lastRet.arg.in) # InputSize
    IN  /\ lastRet.arg.op = "ValidateInput" =>
               lastRet.err = (IF wrongSize THEN "invalidsize" ELSE "none")
        /\ lastRet.arg.op = "Predict" =>
               /\ wrongSize => (lastRet.err = "size" /\ runs = 0)
               /\ lastRet.err = "size" => wrongSize

\* C16's case: Predict was called with an input that is too long and returned.
C16_Witness ==
    /\ lastRet.arg.op = "Predict"
    /\ Len(lastRet.arg.in) > InputSize
    /\ lastRet.err = "size"

\* ------------------------------------------- one owner of the service

\* Number of ONNXModel.Close calls the owner may make.
MaxCloses == 2

\* The task that owns the service: it calls one operation after the other.
Owner == 1

\* The slice Predict returns shares the output tensor's storage.
ResultSliceIsBuffer == "buffer"

\* The slice Predict returns: result := make([]float32, len(outputData)),
\* filled by copy(result, outputData); its storage is its own.
ResultSlice == "fresh"

\* What a reader of a slice kept from Predict sees now.
Observed(h) == IF h.ref = "buffer" THEN outputTensor ELSE h.val

\* The owner keeps the slice its Predict call just returned.
Retain ==
    /\ lastRet.task = Owner
    /\ lastRet.arg.op = "Predict"
    /\ lastRet.err = "none"
    /\ held' = [set |-> TRUE, ref |-> ResultSlice, val |-> lastRet.val]

\* The owner, no call of its own running, calls Close.
OwnerClose ==
    /\ closeCalls < MaxCloses
    /\ tpc[Owner] = "idle"
    /\ Close

\* The owner makes a call; it makes none once it has closed the model.
OwnerCall ==
    /\ closeCalls = 0
    /\ Call(Owner)

\* NewInferenceService with any of the dictionaries; nothing kept or released.
InitOwner ==
    /\ InitSvc
    /\ InitPipe
    /\ InitMain /\ mode = FALSE
    /\ InitRest

NextOwner ==
    \/ OwnerCall /\ UNCHANGED <<pipeVars, mainVars, restVars>>
    \/ Lock(Owner) /\ UNCHANGED <<pipeVars, mainVars, restVars>>
    \/ PredictCopyIn(Owner) /\ UNCHANGED <<pipeVars, mainVars, restVars>>
    \/ RunSession(Owner) /\ UNCHANGED <<pipeVars, mainVars, restVars>>
    \/ CopyOut(Owner) /\ UNCHANGED <<pipeVars, mainVars, restVars>>
    \/ NameBody(Owner) /\ UNCHANGED <<pipeVars, mainVars, restVars>>
    \/ ValidateBody(Owner) /\ UNCHANGED <<pipeVars, mainVars, restVars>>
    \/ Retain /\ UNCHANGED <<svcVars, pipeVars, mainVars, closeVars, funVars>>

SpecOwner == InitOwner /\ [][NextOwner]_vars

\* The owner that also closes the model, up to MaxCloses times.
NextClose ==
    \/ NextOwner
    \/ OwnerClose /\ UNCHANGED <<svcVars, pipeVars, mainVars, held, funVars>>

SpecClose == InitOwner /\ [][NextClose]_vars

OutsideDict(i) == i < 0 \/ i >= Len(classDict.names)

\* C18: GetClassName fails with the dictionary-unset error when there is no
\* dictionary, with the unknown-index error when the index is outside it, and
\* returns the dictionary's entry otherwise; a GetTopKPredictions call that
\* has selected an index outside the dictionary goes on to the lookup that
\* fails with the unknown-index error: the mutex the lookup takes is not held
\* by the call itself.
C18_ClassNameErrors ==
    /\ lastRet.arg.op = "ClassName" =>
           LET i == lastRet.arg.idx
           IN  IF classDict.nil THEN lastRet.err = "dictnil"
               ELSE IF OutsideDict(i) THEN lastRet.err = "unknownidx"
               ELSE lastRet.err = "none" /\ lastRet.val = classDict.names[i + 1]
    /\ \A t \in Tasks :
           (/\ targ[t].op = "TopK"
            /\ tpc[t] = "nameLock"
            /\ ~classDict.nil
            /\ \E i \in 1..Len(tloc[t].indices) : OutsideDict(tloc[t].indices[i]))
               => mu # t

\* The Destroy calls made so far on resource r.
DestroyCount(r) == Cardinality({i \in 1..Len(destroys) : destroys[i] = r})

\* C19: however often Close is called, each of the four resources is released
\* at most once.
C19_ReleasedAtMostOnce ==
    \A i \in 1..Len(Resources) : DestroyCount(Resources[i]) <= 1

\* C20: when the process has ended, by the clean exit after the cancellation
\* or by the fatal error of a listener, ONNXModel.Close has run exactly once.
C20_CloseOnceBeforeExit ==
    proc \in {"exit0", "fatal"} => closeCalls = 1

\* ------------------------------------------------------ startup of main

\* What config.ClassDictPath may name: no file, a file that is not a JSON
\* array of strings, the JSON value null, or an array of n names.
DictFiles ==
    {[kind |-> "absent", len |-> 0], [kind |-> "malformed", len |-> 0],
     [kind |-> "null", len |-> 0]}
        \cup {[kind |-> "list", len |-> n] :
                  n \in {NumClasses - 1, NumClasses, NumClasses + 1}}

\* loadClassDictionary: os.ReadFile fails on an absent file, json.Unmarshal
\* on a malformed one; null unmarshals into a nil slice without error; the
\* length of an array is not looked at.
LoadClassDictionaryOf(f) ==
    CASE f.kind = "absent" -> [err |-> "failed to read class dictionary", dict |-> NilDict]
      [] f.kind = "malformed" -> [err |-> "failed to parse class dictionary", dict |-> NilDict]
      [] f.kind = "null" -> [err |-> "none", dict |-> NilDict]
      [] f.kind = "list" -> [err |-> "none", dict |-> DictOfLen(f.len)]

\* main from loadClassDictionary to NewInferenceService: an error goes to
\* log.Fatal, anything else becomes the service's dictionary.
LoadClassDictionary ==
    /\ Running
    /\ mpc = "load"
    /\ \E f \in DictFiles :
           LET r == LoadClassDictionaryOf(f)
           IN  IF r.err # "none"
               THEN /\ mpc' = "failed"
                    /\ procErr' = r.err
                    /\ UNCHANGED classDict
               ELSE /\ mpc' = "start"
                    /\ classDict' = r.dict
                    /\ UNCHANGED procErr
    /\ UNCHANGED <<mu, inputTensor, outputTensor, tpc, targ, tloc, lastRet, runs>>
    /\ UNCHANGED <<mode, lpc, spc, hpc, errChan, proc>>

\* main before loadClassDictionary.
InitStartup ==
    /\ InitSvc /\ classDict = NilDict
    /\ InitPipe
    /\ mode \in BOOLEAN
    /\ mpc = "load"
    /\ lpc = "none"
    /\ spc = "none"
    /\ hpc = [r \in Requests |-> "none"]
    /\ errChan = <<>>
    /\ proc = "running"
    /\ procErr = "none"
    /\ InitRest

NextStartup ==
    \/ LoadClassDictionary /\ UNCHANGED <<pipeVars, restVars>>
    \/ NextMain

SpecStartup == InitStartup /\ [][NextStartup]_vars

\* The dictionary has one name per class.
DictMatches == ~classDict.nil /\ Len(classDict.names) = NumClasses

\* C21: a listener serves, and a request is handled, only with a dictionary
\* of NumClasses names; with any other dictionary main has ended in
\* log.Fatal before startServers.
C21_DictionaryCheckedAtStartup ==
    (lpc # "none" \/ \E r \in Requests : hpc[r] # "none") => DictMatches

\* The events that left the producers, in order: those the consumer has
\* passed to repository.Create, the one it holds, those in the buffer.
Delivered ==
    [i \in 1..Len(attempts) |-> attempts[i].ev]
        \o (IF cev # NoEvent THEN <<cev>> ELSE <<>>)
        \o events

C23_NoCallBlocksOnOwnLock ==
    /\ lastRet.task # NoTask => mu = NoTask
    /\ \A t \in Tasks : tpc[t] \in {"lock", "nameLock"} => mu # t

\* C24: ONNXModel.Close has not run while the handler of a request is inside
\* an inference, holding s.mu; and no handler is inside an inference once
\* Close has run.
C24_NoCloseDuringInference ==
    closeCalls > 0 => (mu = NoTask /\ \A r \in Requests : hpc[r] # "infer")

\* C25: a Close call attempts the four releases, each of them, in the order
\* input tensor, output tensor, session, environment, and returns an error
\* whenever one of them failed.
C25_CloseOrderAndErrors ==
    closeCalls > 0 =>
        /\ Len(destroys) >= Len(Resources)
        /\ SubSeq(destroys, Len(destroys) - Len(Resources) + 1, Len(destroys)) = Resources
        /\ lastClose.failed # {} => lastClose.err # "none"

\* C26: a call that returns the engine's error has called session.Run exactly
\* once, on an input of the expected size (so the error is not the size
\* error), returns no result, and leaves the mutex free for the calls after
\* it.
C26_EngineFailureOnceNoResult ==
    lastRet.err = "engine" =>
        /\ lastRet.arg.op \in {"Predict", "PredictClass", "TopK"}
        /\ Len(lastRet.arg.in) = InputSize
        /\ runs = 1
        /\ lastRet.val = <<>>
        /\ mu = NoTask

\* C26's case: the engine failed in a GetTopKPredictions call, which returned
\* its error.
C26_Witness ==
    /\ lastRet.err = "engine"
    /\ lastRet.arg.op = "TopK"

====
